---- MODULE Spec2Model ----
(***************************************************************************)
(* Model of functions/FileLayoutParsingOther/__init__.py: the queue        *)
(* handler `main`, `PartitionFile`, the element normaliser, the semantic   *)
(* chunker `_semantic_chunk_elements`, and the query-time chunk-family     *)
(* resolver that reads the chunks `main` persisted.                        *)
(*                                                                         *)
(* A Python string is a sequence of atoms.  An atom is a blank (" "), a    *)
(* newline ("\n"), an HTML tag ("<p>", "</p>", ...), one of the bare       *)
(* characters "<" and ">", or a word.                                      *)
(***************************************************************************)
EXTENDS Integers, Sequences, FiniteSets, TLC

\* ------------------------------------------------------------------ bounds
\* Longest element list the upstream parser hands over.
MaxLen == 3
\* Largest token budget (CHUNK_TARGET_SIZE / chunk_target_size) explored
\* for the bounded element lists.
MaxB == 3

\* ------------------------------------------------------------------ strings
NL == "\n"
Whitespace == {" ", NL}
OpenTags == {"<p>", "<strong>", "<table>"}
CloseTags == {"</p>", "</strong>", "</table>"}
Tags == OpenTags \cup CloseTags

CloserOf(t) ==
    CASE t = "<p>" -> "</p>"
      [] t = "<strong>" -> "</strong>"
      [] t = "<table>" -> "</table>"

\* str.strip(): leading and trailing whitespace removed.
RECURSIVE LStrip(_)
LStrip(s) ==
    IF s # <<>> /\ Head(s) \in Whitespace THEN LStrip(Tail(s)) ELSE s

RECURSIVE RStrip(_)
RStrip(s) ==
    IF s # <<>> /\ s[Len(s)] \in Whitespace
    THEN RStrip(SubSeq(s, 1, Len(s) - 1))
    ELSE s

Strip(s) == RStrip(LStrip(s))

\* sep.join(parts)
RECURSIVE Join(_, _)
Join(parts, sep) ==
    IF parts = <<>> THEN <<>>
    ELSE IF Len(parts) = 1 THEN parts[1]
    ELSE parts[1] \o sep \o Join(Tail(parts), sep)

\* The first line of str.splitlines(); <<>> stands for an empty list's
\* missing first line, which no caller reaches (display_text is non-empty).
RECURSIVE FirstLine(_)
FirstLine(s) ==
    IF s = <<>> \/ Head(s) = NL THEN <<>>
    ELSE <<Head(s)>> \o FirstLine(Tail(s))

\* BeautifulSoup(text, "html.parser"): the parse tree is kept as the atom
\* sequence plus the stack of tags still open.
\* str(soup): a closing tag with no matching open tag is dropped, and every
\* tag left open at the end of the input is closed.
RECURSIVE SoupStrFrom(_, _)
SoupStrFrom(s, open) ==
    IF s = <<>> THEN
        IF open = <<>> THEN <<>>
        ELSE <<CloserOf(open[Len(open)])>>
                 \o SoupStrFrom(s, SubSeq(open, 1, Len(open) - 1))
    ELSE IF Head(s) \in OpenTags THEN
        <<Head(s)>> \o SoupStrFrom(Tail(s), Append(open, Head(s)))
    ELSE IF Head(s) \in CloseTags THEN
        IF open # <<>> /\ CloserOf(open[Len(open)]) = Head(s)
        THEN <<Head(s)>> \o SoupStrFrom(Tail(s), SubSeq(open, 1, Len(open) - 1))
        ELSE SoupStrFrom(Tail(s), open)
    ELSE <<Head(s)>> \o SoupStrFrom(Tail(s), open)

SoupStr(s) == SoupStrFrom(s, <<>>)

\* soup.find(): whether the parse holds at least one tag.
SoupFind(s) == \E i \in 1..Len(s) : s[i] \in OpenTags

\* soup.get_text(" "): the text nodes (maximal runs of non-tag atoms),
\* joined by one blank.
RECURSIVE TextNodes(_, _)
TextNodes(s, run) ==
    IF s = <<>> THEN (IF run = <<>> THEN <<>> ELSE <<run>>)
    ELSE IF Head(s) \in Tags
         THEN (IF run = <<>> THEN <<>> ELSE <<run>>) \o TextNodes(Tail(s), <<>>)
         ELSE TextNodes(Tail(s), Append(run, Head(s)))

GetText(s) == Join(TextNodes(s, <<>>), <<" ">>)

\* _looks_like_html: both "<" and ">" occur in the text and the parse holds
\* a tag.  Every tag atom holds both characters.
HasLt(s) == \E i \in 1..Len(s) : s[i] \in Tags \cup {"<"}
HasGt(s) == \E i \in 1..Len(s) : s[i] \in Tags \cup {">"}
_looks_like_html(text) ==
    IF ~HasLt(text) \/ ~HasGt(text) THEN FALSE ELSE SoupFind(text)

\* ------------------------------------------------------------------ state
VARIABLES
    caller,               \* "main": the queue handler runs; "direct": a bare
                          \* call of _semantic_chunk_elements
    pc,                   \* position in main / in the chunker
    blob,                 \* the queue message's blob and what its parser yields
    chunk_target_size,    \* CHUNK_TARGET_SIZE, the chunker's budget
    overlap_ratio,        \* <<numerator, denominator>> of the overlap ratio
    newline_tokens,       \* tokens the tokenizer spends on one newline
    partition_ret,        \* the tuple PartitionFile returned
    elements, metadata,   \* main's locals unpacked from it
    title,
    normalized_elements, current_section, element_index,
    chunks, start_index, end_index,
    windows,              \* history: <<start_index, end_index>> of each chunk
    chunk_total, write_index,
    written,              \* the write_chunk calls made, in order
    queue,                \* messages sent to the text-enrichment queue
    status, saved,        \* the status log's state for the blob
    error,                \* the exception main caught; NoError if none
    family                \* the resolver's result for one primary chunk

vars == <<caller, pc, blob, chunk_target_size, overlap_ratio, newline_tokens,
          partition_ret, elements, metadata, title, normalized_elements,
          current_section, element_index, chunks, start_index, end_index,
          windows, chunk_total, write_index, written, queue, status, saved,
          error, family>>

\* ------------------------------------------------------------------ tokenizer
\* utilities.token_count: a non-negative integer function of the text.
\* Words carry their token count; blanks are free; a newline costs
\* newline_tokens.
TokenWeight(atom) ==
    CASE atom = " " -> 0
      [] atom = NL -> newline_tokens
      [] atom = "w2" -> 2
      [] atom = "w3" -> 3
      [] atom \in {"A50", "B50", "C50"} -> 50
      [] atom = "X500" -> 500
      [] OTHER -> 1

RECURSIVE token_count(_)
token_count(text) ==
    IF text = <<>> THEN 0
    ELSE TokenWeight(Head(text)) + token_count(Tail(text))

\* ------------------------------------------------------------------ elements
\* An unstructured element: text, metadata.text_as_html (<<>> when None),
\* category, metadata.page_number (0 when None).
Element(text, html, category, page) ==
    [text |-> text, text_as_html |-> html, category |-> category,
     page_number |-> page]

HeadingIntro == Element(<<"Intro">>, <<>>, "Title", 1)
ParaOne      == Element(<<"w1">>, <<>>, "NarrativeText", 0)
ParaTwo      == Element(<<"w2">>, <<>>, "NarrativeText", 2)
ParaThree    == Element(<<" ", "w3">>, <<>>, "ListItem", 1)
BlankTable   == Element(<<>>, <<" ">>, "Table", 2)
EmptyText    == Element(<<" ">>, <<>>, "NarrativeText", 1)
HtmlPara     == Element(<<"<p>", "w1", "<strong>", "w2", "</strong>", "</p>">>,
                        <<>>, "NarrativeText", 1)
OpenTable    == Element(<<"w2">>, <<"<table>", "w2">>, "Table", 3)
AngleText    == Element(<<"w1", "<", "w1", ">">>, <<>>, "NarrativeText", 0)
SectionHead  == Element(<<"Sec", " ", NL, "w1">>, <<>>, "Heading", 2)
ParaA        == Element(<<"A50">>, <<>>, "NarrativeText", 1)
ParaB        == Element(<<"B50">>, <<>>, "NarrativeText", 1)
ParaC        == Element(<<"C50">>, <<>>, "NarrativeText", 2)
ParaHuge     == Element(<<"X500">>, <<>>, "NarrativeText", 1)

ElementPool ==
    {HeadingIntro, ParaOne, ParaTwo, ParaThree, BlankTable, EmptyText}

\* Every list of pool elements up to MaxLen long.
ElementLists == UNION {[1..n -> ElementPool] : n \in 0..MaxLen}

\* Lists that exercise the markup paths of the normaliser.
MarkupLists ==
    {<<SectionHead, HtmlPara, OpenTable>>, <<AngleText, SectionHead>>,
     <<OpenTable, BlankTable, HtmlPara>>}

HEADER_CATEGORIES ==
    {"Title", "Subtitle", "Section Header", "Header", "Heading",
     "SectionHeading"}

DEFAULT_CHUNK_OVERLAP_RATIO == <<1, 4>>

\* ------------------------------------------------------------------ normaliser
\* _normalize_element_content: <<display_text, token_text>>.
_normalize_element_content(element) ==
    LET text == Strip(element.text)
        html_text == element.text_as_html
    IN  IF html_text # <<>>
        THEN <<SoupStr(html_text), Strip(GetText(html_text))>>
        ELSE IF text # <<>> /\ _looks_like_html(text)
        THEN <<Strip(GetText(text)), Strip(GetText(text))>>
        ELSE <<text, text>>

\* NormalizedRecord stamped with the section as it stood before the element.
NormalizedRecordStampsPrevious(element, content, section) ==
    [display_text |-> content[1],
     token_text   |-> IF content[2] # <<>> THEN content[2] ELSE content[1],
     category     |-> element.category,
     section      |-> current_section,
     page_number  |-> element.page_number]

\* The record appended for a kept element, given the section after its update.
NormalizedRecord(element, content, section) ==
    [display_text |-> content[1],
     token_text   |-> IF content[2] # <<>> THEN content[2] ELSE content[1],
     category     |-> element.category,
     section      |-> section,
     page_number  |-> element.page_number]

\* The running section after a kept element.
SectionAfter(element, content, section) ==
    IF element.category \in HEADER_CATEGORIES /\ content[1] # <<>>
    THEN Strip(FirstLine(content[1]))
    ELSE section

\* ------------------------------------------------------------------ chunker
\* Token count of normalized element i (0-based, as in the code).
ElementTokens(norm, i) == token_count(norm[i + 1].token_text)

\* StopsBefore with the candidate's own tokens left out of the sum.
StopsBeforeIgnoringCandidate(acc, candidate_tokens, budget, has_elements) ==
    acc > budget /\ has_elements

\* The inner loop's stop test before admitting a candidate.
StopsBefore(acc, candidate_tokens, budget, has_elements) ==
    acc + candidate_tokens > budget /\ has_elements

\* The inner loop's stop test after admitting a candidate.
StopsAfter(acc, budget) == acc >= budget

\* The inner while loop from (end, acc): <<end_index, tokens_accumulated>>.
RECURSIVE Accumulate(_, _, _, _, _)
Accumulate(norm, start, end, acc, budget) ==
    IF end >= Len(norm) THEN <<end, acc>>
    ELSE LET c == ElementTokens(norm, end)
         IN  IF StopsBefore(acc, c, budget, end > start) THEN <<end, acc>>
             ELSE IF StopsAfter(acc + c, budget) THEN <<end + 1, acc + c>>
             ELSE Accumulate(norm, start, end + 1, acc + c, budget)

\* The window starting at start: the inner loop, then the guard that admits
\* the first element when the loop admitted nothing.
WindowFrom(norm, start, budget) ==
    LET w == Accumulate(norm, start, start, 0, budget)
    IN  IF w[1] = start /\ start < Len(norm)
        THEN <<start + 1, ElementTokens(norm, start)>>
        ELSE w

\* [segment[field] for segment in chunk_elements if segment[field]]
RECURSIVE Segments(_, _, _, _)
Segments(norm, start, end, field) ==
    IF start >= end THEN <<>>
    ELSE (IF norm[start + 1][field] # <<>>
          THEN <<norm[start + 1][field]>> ELSE <<>>)
         \o Segments(norm, start + 1, end, field)

\* The section of the last element of the window that has one.
RECURSIVE SectionName(_, _, _)
SectionName(norm, start, end) ==
    IF end <= start THEN <<>>
    ELSE IF norm[end].section # <<>> THEN norm[end].section
    ELSE SectionName(norm, start, end - 1)

Pages(norm, start, end) ==
    {IF norm[i].page_number # 0 THEN norm[i].page_number ELSE 1 :
        i \in (start + 1)..end}

\* The chunk record appended for the window [start, end).
ChunkRecord(norm, start, end) ==
    LET chunk_display_text == Strip(Join(Segments(norm, start, end, "display_text"),
                                         <<NL, NL>>))
        chunk_token_text == Strip(Join(Segments(norm, start, end, "token_text"),
                                       <<NL, NL>>))
        pages == Pages(norm, start, end)
    IN  [content     |-> chunk_display_text,
         token_text  |-> chunk_token_text,
         token_count |-> IF chunk_token_text # <<>>
                         THEN token_count(chunk_token_text) ELSE 0,
         pages       |-> IF pages # {} THEN pages ELSE {1},
         section     |-> SectionName(norm, start, end)]

\* max(int(chunk_target_size * overlap_ratio), 1)
OverlapTokens(budget, ratio) ==
    LET scaled == (budget * ratio[1]) \div ratio[2]
    IN  IF scaled > 1 THEN scaled ELSE 1

\* WalkBack as an `if`: one step back, whatever the overlap target.
WalkBackOneStep(norm, start, new_start, acc, overlap_tokens) ==
    IF new_start > start /\ acc < overlap_tokens THEN new_start - 1 ELSE new_start

\* The backward walk from new_start with overlap_accumulated = acc.
RECURSIVE WalkBack(_, _, _, _, _)
WalkBack(norm, start, new_start, acc, overlap_tokens) ==
    IF new_start > start /\ acc < overlap_tokens
    THEN WalkBack(norm, start, new_start - 1,
                  acc + ElementTokens(norm, new_start - 1), overlap_tokens)
    ELSE new_start

\* NextStart with the next window started one past the window's end.
NextStartPastEnd(norm, start, end, budget, ratio) == end + 1

\* NextStart with no step back over the overlap.
NextStartNoOverlap(norm, start, end, budget, ratio) == end

\* NextStart that keeps the walk's result even at the window's own start.
NextStartNoBump(norm, start, end, budget, ratio) ==
    WalkBack(norm, start, end, 0, OverlapTokens(budget, ratio))

\* The next window's start: the walk's result, moved on by one when the walk
\* came back to the window's own start.
NextStart(norm, start, end, budget, ratio) ==
    LET new_start == WalkBack(norm, start, end, 0, OverlapTokens(budget, ratio))
    IN  IF new_start = start THEN new_start + 1 ELSE new_start

\* ------------------------------------------------------------------ JSON
JStr(text)   == [t |-> "str", v |-> text]
JNum         == [t |-> "num", v |-> <<>>]
JList(items) == [t |-> "list", v |-> items]
\* A dict is its <<key, value>> pairs in insertion order.
JDict(pairs) == [t |-> "dict", v |-> pairs]
\* A body that json.loads rejects.
JMalformed   == [t |-> "malformed", v |-> <<>>]

\* _collect_json_fragments: the <<kind, text>> fragments, depth first.
RECURSIVE _walk(_), WalkChildren(_, _)
_walk(node) ==
    CASE node.t = "dict" -> WalkChildren(node.v, TRUE)
      [] node.t = "list" -> WalkChildren(node.v, FALSE)
      [] node.t = "str" ->
            LET stripped == Strip(node.v)
            IN  IF stripped = <<>> THEN <<>>
                ELSE IF _looks_like_html(stripped)
                THEN << <<"html", SoupStr(stripped)>> >>
                ELSE << <<"text", stripped>> >>
      [] OTHER -> <<>>
WalkChildren(children, keyed) ==
    IF children = <<>> THEN <<>>
    ELSE _walk(IF keyed THEN Head(children)[2] ELSE Head(children))
         \o WalkChildren(Tail(children), keyed)

_collect_json_fragments(value) == _walk(value)

\* dict.get(key): <<value>> when the key is present, <<>> when it is not.
RECURSIVE DictGet(_, _)
DictGet(pairs, key) ==
    IF pairs = <<>> THEN <<>>
    ELSE IF Head(pairs)[1] = key THEN <<Head(pairs)[2]>>
    ELSE DictGet(Tail(pairs), key)

\* unstructured's partition_text(text=...) and partition_html(text=...):
\* one uncategorised element holding the fragment's text.
partition_text(text) == <<Element(text, <<>>, "NarrativeText", 0)>>
partition_html(text) == <<Element(Strip(GetText(text)), <<>>, "NarrativeText", 0)>>

\* The elements of the fragments; partition_html may raise, and the fragment
\* then goes through partition_text.
RECURSIVE FragmentElements(_, _)
FragmentElements(fragments, html_raises) ==
    IF fragments = <<>> THEN <<>>
    ELSE (IF Head(fragments)[1] = "html" /\ ~html_raises
          THEN partition_html(Head(fragments)[2])
          ELSE partition_text(Head(fragments)[2]))
         \o FragmentElements(Tail(fragments), html_raises)

\* The "Title", "Subject", "Summary" lines of a dict payload.
RECURSIVE JsonMetadata(_, _)
JsonMetadata(payload, keys) ==
    IF keys = <<>> \/ payload.t # "dict" THEN <<>>
    ELSE LET value == DictGet(payload.v, Head(keys))
         IN  (IF value # <<>> /\ value[1].t = "str" /\ Strip(value[1].v) # <<>>
              THEN << <<Head(keys) \o ":", " ">> \o Strip(value[1].v) >>
              ELSE <<>>)
             \o JsonMetadata(payload, Tail(keys))

\* The ".json" branch's elements.
JsonElements(payload, html_raises) ==
    LET fragments == _collect_json_fragments(payload)
    IN  IF fragments # <<>> THEN FragmentElements(fragments, html_raises)
        ELSE partition_text(<<"json.dumps">>)

\* The ".eml"/".msg" branch's metadata lines, from the first element's mail
\* header.
RECURSIVE SentTo(_)
SentTo(recipients) ==
    IF recipients = <<>> THEN <<>>
    ELSE <<" ", Head(recipients)>> \o SentTo(Tail(recipients))

MailMetadata(mail) ==
    << <<"Subject:", " ", mail.subject>>,
       <<"From:", " ", mail.sent_from[1]>>,
       <<"To:", " ">> \o SentTo(mail.sent_to) >>

\* ------------------------------------------------------------------ blobs
\* A Python list or None.
PyList(items) == [is_none |-> FALSE, items |-> items]
PyNone        == [is_none |-> TRUE, items |-> <<>>]

NoMail == [subject |-> "", sent_from |-> <<>>, sent_to |-> <<>>]
Blob(ext, parsed, payload, mail) ==
    [blob_name |-> "files/doc" \o ext, ext |-> ext, parsed |-> parsed,
     payload |-> payload, mail |-> mail]

TextBlob(parsed) == Blob(".txt", parsed, JNum, NoMail)
JsonBlob(payload) == Blob(".json", <<>>, payload, NoMail)
MailBlob(parsed, mail) == Blob(".eml", parsed, JNum, mail)
OtherBlob == Blob(".bin", <<>>, JNum, NoMail)

TestPayload ==
    JDict(<< <<"Title", JStr(<<"My", " ", "Document">>)>>,
             <<"Content", JStr(<<"<p>", "Welcome", " ", "<strong>", "reader",
                                 "</strong>", "</p>">>)>>,
             <<"source_url", JStr(<<"https://contoso.example/source">>)>> >>)
NestedPayload ==
    JDict(<< <<"Title", JStr(<<" ">>)>>,
             <<"Subject", JStr(<<" ", "w1">>)>>,
             <<"Summary", JNum>>,
             <<"Body", JList(<<JStr(<<"w2">>), JNum,
                              JDict(<< <<"x", JStr(<<"<p>", "w1">>)>> >>)>>)>> >>)
ListPayload == JList(<<JStr(<<"w1">>), JStr(<<"w3">>)>>)
EmptyPayload == JDict(<<>>)
JsonPool == {TestPayload, NestedPayload, ListPayload, EmptyPayload, JMalformed}

MailPool ==
    {MailBlob(<<ParaOne, ParaTwo>>,
              [subject |-> "Hello", sent_from |-> <<"a@x">>,
               sent_to |-> <<"b@x", "c@x">>]),
     MailBlob(<<ParaOne>>,
              [subject |-> "Hello", sent_from |-> <<>>, sent_to |-> <<>>]),
     MailBlob(<<>>, NoMail)}

\* The two end-to-end documents of the design: a heading and three 50-token
\* paragraphs under a budget of 60, and one 500-token element under 100.
IntroDocument == <<HeadingIntro, ParaA, ParaB, ParaC>>
HugeDocument  == <<ParaHuge>>
ScenarioInputs == {<<IntroDocument, 60>>, <<HugeDocument, 100>>}

\* Longer lists, on which the backward walk stops inside a window.
LongLists ==
    {<<ParaOne, ParaOne, ParaOne, ParaThree>>,
     <<ParaOne, ParaOne, ParaOne, ParaOne, ParaThree, ParaOne>>,
     <<ParaTwo, ParaOne, BlankTable, ParaOne, ParaTwo>>}

\* <<element list, budget>> pairs the chunker is run on.
ChunkerInputs ==
    ((ElementLists \cup MarkupLists \cup LongLists) \X (1..MaxB))
        \cup ScenarioInputs

\* <<blob, CHUNK_TARGET_SIZE>> pairs main is run on.
MainInputs ==
    {<<TextBlob(i[1]), i[2]>> : i \in ChunkerInputs}
        \cup ({JsonBlob(p) : p \in JsonPool} \X {MaxB})
        \cup (MailPool \X {MaxB})
        \cup {<<OtherBlob, MaxB>>}

Ratios == {<<1, 4>>, <<1, 2>>, <<3, 4>>}

\* ------------------------------------------------------------------ Init
\* The exception main caught (its type, and the function that raised it).
Raised(type, raised_in) == [type |-> type, raised_in |-> raised_in]
NoError == Raised("none", "none")

\* The state every run starts from, its inputs apart.
Fresh ==
    /\ partition_ret = <<>>
    /\ metadata = <<>>
    /\ title = <<>>
    /\ normalized_elements = <<>>
    /\ current_section = <<>>
    /\ element_index = 0
    /\ chunks = <<>>
    /\ windows = <<>>
    /\ start_index = 0
    /\ end_index = 0
    /\ chunk_total = 0
    /\ write_index = 0
    /\ written = <<>>
    /\ queue = <<>>
    /\ status = "NONE"
    /\ saved = FALSE
    /\ error = NoError
    /\ family = <<>>
    /\ newline_tokens \in {0, 1}

\* main(msg) is invoked for a blob; CHUNK_TARGET_SIZE is set in the
\* environment and main passes DEFAULT_CHUNK_OVERLAP_RATIO.
InitMain ==
    /\ caller = "main"
    /\ pc = "receive"
    /\ \E i \in MainInputs : blob = i[1] /\ chunk_target_size = i[2]
    /\ overlap_ratio = DEFAULT_CHUNK_OVERLAP_RATIO
    /\ elements = PyList(<<>>)
    /\ Fresh

\* _semantic_chunk_elements(elements, chunk_target_size, overlap_ratio) is
\* called on its own.
InitDirect ==
    /\ caller = "direct"
    /\ pc = "normalize"
    /\ \E i \in ChunkerInputs :
          /\ blob = TextBlob(i[1])
          /\ elements = PyList(i[1])
          /\ chunk_target_size = i[2]
    /\ overlap_ratio \in Ratios
    /\ Fresh

Init == InitMain \/ InitDirect

\* ------------------------------------------------------------------ main
Inputs == <<caller, blob, chunk_target_size, overlap_ratio, newline_tokens>>
ChunkerLocals == <<normalized_elements, current_section, element_index, chunks,
                   windows, start_index, end_index>>
WriterLocals == <<chunk_total, write_index, written>>

\* Caught without the handler's State.ERROR.
CaughtKeepsStatus(type, raised_in) ==
    /\ error' = Raised(type, raised_in)
    /\ pc' = "save"
    /\ UNCHANGED status

\* main's `except Exception`: the status log records State.ERROR and control
\* goes on to save_document.
Caught(type, raised_in) ==
    /\ error' = Raised(type, raised_in)
    /\ status' = "ERROR"
    /\ pc' = "save"

\* An exception raised inside the `except` block itself leaves main.
Escapes(type, raised_in) ==
    /\ error' = Raised(type, raised_in)
    /\ pc' = "escaped"
    /\ UNCHANGED status

\* Lines 328-348: the status log is built, the message decoded, the SAS url
\* made and the blob downloaded.  A failing StatusLog constructor leaves
\* statusLog unbound and a failing decode leaves blob_name unbound: the
\* handler's own statement then raises.
Receive ==
    /\ pc = "receive"
    /\ \/ /\ status' = "PROCESSING"
          /\ pc' = "partition"
          /\ UNCHANGED error
       \/ Escapes("UnboundLocalError", "StatusLog")
       \/ Escapes("UnboundLocalError", "json.loads")
       \/ Caught("HTTPError", "main")
    /\ UNCHANGED <<Inputs, partition_ret, elements, metadata, title,
                   ChunkerLocals, WriterLocals, queue, saved, family>>

\* The extensions PartitionFile has a branch for (one stands for each kind
\* of branch); a parser may raise on any blob it is given.
SupportedExtensions == {".txt", ".eml", ".json"}

\* What the branch for the extension always raises on: the mail branch reads
\* elements[0] and sent_from[0]; the JSON branch loads the body.
ParserRaises(b) ==
    CASE b.ext = ".eml" -> b.parsed = <<>> \/ b.mail.sent_from = <<>>
      [] b.ext = ".json" -> b.payload.t = "malformed"
      [] OTHER -> FALSE

\* PartitionFile's return value.
PartitionResult(b, html_raises) ==
    CASE b.ext = ".txt" -> <<PyList(b.parsed), <<>> >>
      [] b.ext = ".eml" -> <<PyList(b.parsed), MailMetadata(b.mail)>>
      [] b.ext = ".json" ->
            <<PyList(JsonElements(b.payload, html_raises)),
              JsonMetadata(b.payload, <<"Title", "Subject", "Summary">>)>>
      [] OTHER -> <<PyNone, <<>> >>

\* Lines 219-323 and the unpacking at line 352.  The download at line 225 is
\* outside the try block; everything the parsers raise is re-raised as
\* UnstructuredError.
PartitionFile ==
    /\ pc = "partition"
    /\ \/ /\ Caught("ConnectionError", "PartitionFile")
          /\ UNCHANGED <<partition_ret, elements, metadata>>
       \/ /\ blob.ext \in SupportedExtensions
          /\ Caught("UnstructuredError", "PartitionFile")
          /\ UNCHANGED <<partition_ret, elements, metadata>>
       \/ /\ ~ParserRaises(blob)
          /\ \E html_raises \in BOOLEAN :
                partition_ret' = PartitionResult(blob, html_raises)
          /\ elements' = partition_ret'[1]
          /\ metadata' = partition_ret'[2]
          /\ pc' = "title"
          /\ UNCHANGED <<status, error>>
    /\ UNCHANGED <<Inputs, title, ChunkerLocals, WriterLocals, queue, saved,
                   family>>

\* The text of the first element whose category is 'Title', '' if none.
RECURSIVE FirstTitle(_)
FirstTitle(items) ==
    IF items = <<>> THEN <<>>
    ELSE IF Head(items).category = "Title" THEN Head(items).text
    ELSE FirstTitle(Tail(items))

\* Lines 353-368: the title is captured; iterating None raises inside the
\* bare try/except and leaves the title empty.
CaptureTitle ==
    /\ pc = "title"
    /\ title' = IF elements.is_none THEN <<>> ELSE FirstTitle(elements.items)
    /\ pc' = "normalize"
    /\ UNCHANGED <<Inputs, partition_ret, elements, metadata, ChunkerLocals,
                   WriterLocals, queue, status, saved, error, family>>

\* ------------------------------------------------------------------ chunker
\* Where control goes when _semantic_chunk_elements returns.
Return ==
    IF caller = "main"
    THEN /\ pc' = "write"
         /\ chunk_total' = Len(chunks')
         /\ write_index' = 0
         /\ UNCHANGED written
    ELSE /\ pc' = "returned"
         /\ UNCHANGED WriterLocals

\* Line 129 on None: `for element in elements` raises TypeError, which main
\* catches.
NormalizeNone ==
    /\ pc = "normalize"
    /\ elements.is_none
    /\ Caught("TypeError", "_semantic_chunk_elements")
    /\ UNCHANGED <<Inputs, partition_ret, elements, metadata, title,
                   ChunkerLocals, WriterLocals, queue, saved, family>>

\* Lines 129-146, one element: dropped when its display text is empty, else
\* stamped with the section as it stands after the element's own update.
NormalizeElement ==
    /\ pc = "normalize"
    /\ ~elements.is_none
    /\ element_index < Len(elements.items)
    /\ LET element == elements.items[element_index + 1]
           content == _normalize_element_content(element)
       IN  IF content[1] = <<>>
           THEN UNCHANGED <<normalized_elements, current_section>>
           ELSE /\ current_section' = SectionAfter(element, content, current_section)
                /\ normalized_elements' =
                      Append(normalized_elements,
                             NormalizedRecord(element, content, current_section'))
    /\ element_index' = element_index + 1
    /\ UNCHANGED <<Inputs, pc, partition_ret, elements, metadata, title, chunks,
                   windows, start_index, end_index, WriterLocals, queue, status,
                   saved, error, family>>

\* Lines 148-150: the element loop is over; the window loop starts at 0.
NormalizeDone ==
    /\ pc = "normalize"
    /\ ~elements.is_none
    /\ element_index >= Len(elements.items)
    /\ chunks' = <<>>
    /\ start_index' = 0
    /\ pc' = "window"
    /\ UNCHANGED <<Inputs, partition_ret, elements, metadata, title,
                   normalized_elements, current_section, element_index, windows,
                   end_index, WriterLocals, queue, status, saved, error, family>>

\* Lines 152-198: one window is built and its chunk appended; with no element
\* left at the loop test the function returns.
BuildWindow ==
    /\ pc = "window"
    /\ IF start_index < Len(normalized_elements)
       THEN LET w == WindowFrom(normalized_elements, start_index, chunk_target_size)
            IN  /\ end_index' = w[1]
                /\ chunks' = Append(chunks, ChunkRecord(normalized_elements,
                                                        start_index, w[1]))
                /\ windows' = Append(windows, <<start_index, w[1]>>)
                /\ pc' = "advance"
                /\ UNCHANGED WriterLocals
       ELSE /\ UNCHANGED <<end_index, chunks, windows>>
            /\ Return
    /\ UNCHANGED <<Inputs, partition_ret, elements, metadata, title,
                   normalized_elements, current_section, element_index,
                   start_index, queue, status, saved, error, family>>

\* Lines 200-215: return after the window that reached the end, else step
\* back over the overlap and start the next window.
Advance ==
    /\ pc = "advance"
    /\ IF end_index >= Len(normalized_elements)
       THEN /\ UNCHANGED <<start_index, chunks>>
            /\ Return
       ELSE /\ start_index' = NextStart(normalized_elements, start_index, end_index,
                                        chunk_target_size, overlap_ratio)
            /\ pc' = "window"
            /\ UNCHANGED <<chunks, WriterLocals>>
    /\ UNCHANGED <<Inputs, partition_ret, elements, metadata, title,
                   normalized_elements, current_section, element_index, windows,
                   end_index, queue, status, saved, error, family>>

\* ------------------------------------------------------------------ writer
\* metdata_text: each metadata line followed by a newline.
RECURSIVE MetadataText(_)
MetadataText(lines) ==
    IF lines = <<>> THEN <<>>
    ELSE Head(lines) \o <<NL>> \o MetadataText(Tail(lines))

\* The write_chunk call for chunk i (0-based) of the list.
WriteCall(i) ==
    LET chunk == chunks[i + 1]
        metdata_text == MetadataText(metadata)
    IN  [blob_name   |-> blob.blob_name,
         chunk_index |-> i,
         chunk_total |-> chunk_total,
         chunk_size  |-> IF chunk.token_count = 0
                         THEN token_count(chunk.token_text)
                         ELSE chunk.token_count,
         chunk_text  |-> metdata_text \o chunk.content,
         page_list   |-> IF chunk.pages # {} THEN chunk.pages ELSE {1},
         section_name |-> chunk.section,
         title_name  |-> title]

\* Lines 376-406, one iteration: a chunk with an empty body is skipped, any
\* other is written under its position in the list; write_chunk may raise.
WriteChunk ==
    /\ pc = "write"
    /\ IF write_index < Len(chunks)
       THEN IF chunks[write_index + 1].content = <<>>
            THEN /\ write_index' = write_index + 1
                 /\ UNCHANGED <<written, pc, status, error>>
            ELSE \/ /\ written' = Append(written, WriteCall(write_index))
                    /\ write_index' = write_index + 1
                    /\ UNCHANGED <<pc, status, error>>
                 \/ /\ Caught("WriteError", "write_chunk")
                    /\ UNCHANGED <<written, write_index>>
       ELSE /\ pc' = "enqueue"
            /\ UNCHANGED <<written, write_index, status, error>>
    /\ UNCHANGED <<Inputs, partition_ret, elements, metadata, title,
                   ChunkerLocals, chunk_total, queue, saved, family>>

\* Lines 409-416: the message goes to the text-enrichment queue and the
\* status becomes State.QUEUED; send_message may raise.
SendMessage ==
    /\ pc = "enqueue"
    /\ \/ /\ queue' = Append(queue, [blob_name |-> blob.blob_name,
                                     text_enrichment_queued_count |-> 1])
          /\ status' = "QUEUED"
          /\ pc' = "save"
          /\ UNCHANGED error
       \/ /\ Caught("QueueError", "send_message")
          /\ UNCHANGED queue
    /\ UNCHANGED <<Inputs, partition_ret, elements, metadata, title,
                   ChunkerLocals, WriterLocals, saved, family>>

\* Line 421: statusLog.save_document(blob_name).
SaveDocument ==
    /\ pc = "save"
    /\ saved' = TRUE
    /\ pc' = "done"
    /\ UNCHANGED <<Inputs, partition_ret, elements, metadata, title,
                   ChunkerLocals, WriterLocals, queue, status, error, family>>

\* ------------------------------------------------------------------ resolver
\* The chunk store's point query: the records of the file at the index.
Lookup(store, file, index) ==
    SelectSeq(store, LAMBDA d : d.blob_name = file /\ d.chunk_index = index)

\* LooksUpNext that also asks for the index one past the document's end.
LooksUpNextPastEnd(index, total) == index + 1 <= total

\* Whether the resolver issues the lookup for the predecessor / successor.
LooksUpPrevious(index) == index > 0
LooksUpNext(index, total) == index + 1 < total

\* The first record of a lookup's result, if any.
FirstOf(found) == IF found = <<>> THEN <<>> ELSE <<found[1]>>

RECURSIVE ChunkTexts(_)
ChunkTexts(docs) ==
    IF docs = <<>> THEN <<>>
    ELSE <<Head(docs).chunk_text>> \o ChunkTexts(Tail(docs))

\* _combine_chunk_family(primary): the lookups issued, the chunks retrieved
\* in ascending index order, and their texts joined by a blank line.
ChunkFamily(store, primary) ==
    LET k == primary.chunk_index
        previous == IF LooksUpPrevious(k)
                    THEN FirstOf(Lookup(store, primary.blob_name, k - 1))
                    ELSE <<>>
        next == IF LooksUpNext(k, primary.chunk_total)
                THEN FirstOf(Lookup(store, primary.blob_name, k + 1))
                ELSE <<>>
        docs == previous \o <<primary>> \o next
    IN  [primary |-> primary,
         calls   |-> (IF LooksUpPrevious(k) THEN {k - 1} ELSE {})
                         \cup (IF LooksUpNext(k, primary.chunk_total)
                               THEN {k + 1} ELSE {}),
         docs    |-> docs,
         text    |-> Join(ChunkTexts(docs), <<NL, NL>>)]

\* A search hit on one persisted chunk is expanded to its family.
CombineChunkFamily ==
    /\ pc = "done"
    /\ \E i \in 1..Len(written) :
          family' = <<ChunkFamily(written, written[i])>>
    /\ pc' = "resolved"
    /\ UNCHANGED <<Inputs, partition_ret, elements, metadata, title,
                   ChunkerLocals, WriterLocals, queue, status, saved, error>>

\* ------------------------------------------------------------------ spec
Next ==
    \/ Receive
    \/ PartitionFile
    \/ CaptureTitle
    \/ NormalizeNone
    \/ NormalizeElement
    \/ NormalizeDone
    \/ BuildWindow
    \/ Advance
    \/ WriteChunk
    \/ SendMessage
    \/ SaveDocument
    \/ CombineChunkFamily

Spec == Init /\ [][Next]_vars

\* ------------------------------------------------------------------ properties
\* _semantic_chunk_elements has just returned its chunk list.
ChunkerReturned == pc \in {"returned", "write"}

\* Positions (0-based) of the normalized sequence.
Positions == 0..(Len(normalized_elements) - 1)

\* Window w = <<start, end>> holds position i.
Holds(w, i) == w[1] <= i /\ i < w[2]

\* The chunks (by number, from 1) whose window holds position i.
ChunksHolding(i) == {j \in 1..Len(windows) : Holds(windows[j], i)}

\* Sum of the token counts of the positions first..(last - 1).
RECURSIVE TokenMass(_, _)
TokenMass(first, last) ==
    IF first >= last THEN 0
    ELSE ElementTokens(normalized_elements, first) + TokenMass(first + 1, last)

\* C1 as stated: when the chunker has returned, every normalized element is
\* the source element of exactly one chunk (none omitted, none duplicated).
C1_ExactlyOneChunk ==
    ChunkerReturned =>
        \A i \in Positions : Cardinality(ChunksHolding(i)) = 1

\* C1 as amended: when the chunker has returned, every chunk is a run of
\* normalized elements, every normalized element is the source element of at
\* least one chunk, and an element held by several chunks is held by
\* consecutive chunks only (it is repeated as overlap, never elsewhere).
C1_CoverageWithOverlap ==
    ChunkerReturned =>
        /\ Len(windows) = Len(chunks)
        /\ \A j \in 1..Len(windows) :
              /\ 0 <= windows[j][1] /\ windows[j][1] < windows[j][2]
              /\ windows[j][2] <= Len(normalized_elements)
        /\ \A i \in Positions :
              /\ ChunksHolding(i) # {}
              /\ \A a, b \in ChunksHolding(i) :
                    \A j \in a..b : j \in ChunksHolding(i)

\* C1 witness: the chunker returned with an element held by two chunks.
C1_Witness ==
    /\ ChunkerReturned
    /\ \E i \in Positions : Cardinality(ChunksHolding(i)) >= 2

\* A chunk's window is a single element whose own token count exceeds the
\* budget.
SingleOversized(w) ==
    /\ w[2] = w[1] + 1
    /\ ElementTokens(normalized_elements, w[1]) > chunk_target_size

\* C2: every chunk's token_count (the tokenizer's count of its joined token
\* text) is at most the budget, except a chunk built from one single element
\* whose own token count exceeds the budget.
C2_BudgetRespect ==
    \A j \in 1..Len(chunks) :
        \/ SingleOversized(windows[j])
        \/ chunks[j].token_count <= chunk_target_size

\* C3 as stated: chunk j+1 begins with trailing elements of chunk j whose
\* token counts sum to at least max(floor(B*r), 1).
C3_OverlapMass ==
    \A j \in 1..(Len(windows) - 1) :
        /\ windows[j][1] < windows[j + 1][1]
        /\ windows[j + 1][1] <= windows[j][2]
        /\ windows[j][2] <= windows[j + 1][2]
        /\ TokenMass(windows[j + 1][1], windows[j][2])
              >= OverlapTokens(chunk_target_size, overlap_ratio)

\* C3 as amended: chunk j+1 begins with the trailing elements of chunk j from
\* its start on, and their token counts sum to at least max(floor(B*r), 1)
\* unless chunk j+1 starts at the element right after chunk j's first one
\* (the backward walk reached chunk j's start); the shared run is then
\* whatever follows chunk j's first element, which may be nothing.
C3_OverlapUnlessWalkReachedStart ==
    \A j \in 1..(Len(windows) - 1) :
        /\ windows[j][1] < windows[j + 1][1]
        /\ windows[j + 1][1] <= windows[j][2]
        /\ windows[j][2] <= windows[j + 1][2]
        /\ \/ TokenMass(windows[j + 1][1], windows[j][2])
                 >= OverlapTokens(chunk_target_size, overlap_ratio)
           \/ windows[j + 1][1] = windows[j][1] + 1

\* C3 witness: two consecutive chunks share a non-empty run of elements that
\* reaches the overlap target.
C3_Witness ==
    \E j \in 1..(Len(windows) - 1) :
        /\ windows[j + 1][1] < windows[j][2]
        /\ TokenMass(windows[j + 1][1], windows[j][2])
              >= OverlapTokens(chunk_target_size, overlap_ratio)

\* C4: once main has gone through all chunks, the chunk_index values written
\* are exactly 0..N-1 for the N write_chunk calls made, and every written
\* chunk_total is N, also when a window with empty content was dropped.
C4_IndexContiguity ==
    pc = "enqueue" =>
        /\ {written[n].chunk_index : n \in 1..Len(written)} = 0..(Len(written) - 1)
        /\ \A n \in 1..Len(written) : written[n].chunk_total = Len(written)

\* C5: each window starts strictly after the one before and inside the
\* sequence, so the window loop runs at most once per normalized element and
\* ends with a window that reaches the end of the sequence; the number of
\* chunks never exceeds the number of normalized elements.
C5_ForwardProgress ==
    /\ [][(pc = "advance" /\ pc' = "window") =>
             /\ start_index' > start_index
             /\ start_index' < Len(normalized_elements)]_vars
    /\ [](/\ Len(chunks) <= Len(normalized_elements)
          /\ \A j \in 1..(Len(windows) - 1) : windows[j][1] < windows[j + 1][1]
          /\ (ChunkerReturned /\ normalized_elements # <<>>) =>
                windows[Len(windows)][2] = Len(normalized_elements))

\* C5 witness: the function returned after more than one window.
C5_Witness == ChunkerReturned /\ Len(windows) >= 2

\* The 500-token element under a budget of 100.
HugeScenario == elements = PyList(HugeDocument) /\ chunk_target_size = 100

\* C6: an element whose own token count exceeds the budget is in a chunk once
\* the chunker returns, and every chunk holding it holds only it; the single
\* 500-token element under a budget of 100 gives one chunk with
\* token_count 500, written with index 0 and total 1.
C6_OversizedAlone ==
    /\ \A i \in Positions :
          ElementTokens(normalized_elements, i) > chunk_target_size =>
              /\ ChunkerReturned => ChunksHolding(i) # {}
              /\ \A j \in ChunksHolding(i) : windows[j] = <<i, i + 1>>
    /\ (HugeScenario /\ ChunkerReturned) =>
          /\ Len(chunks) = 1
          /\ chunks[1].content = <<"X500">>
          /\ chunks[1].token_count = 500
    /\ (HugeScenario /\ pc = "enqueue") =>
          /\ Len(written) = 1
          /\ written[1].chunk_index = 0
          /\ written[1].chunk_total = 1
          /\ written[1].chunk_size = 500

\* C6 witness: main has written the 500-token element's chunk.
C6_Witness == HugeScenario /\ pc = "enqueue" /\ Len(written) = 1

\* The heading and three 50-token paragraphs under a budget of 60, r = 0.25.
IntroScenario ==
    /\ elements = PyList(IntroDocument)
    /\ chunk_target_size = 60
    /\ overlap_ratio = <<1, 4>>
    /\ ChunkerReturned

\* C7 as stated: chunk 0 is {Intro, A}, and chunk 1 starts with A and goes on
\* with B.
C7_SecondChunkHoldsAandB ==
    IntroScenario =>
        /\ windows[1] = <<0, 2>>
        /\ Len(windows) >= 2
        /\ windows[2][1] = 1
        /\ windows[2][2] >= 3

\* C7 as amended: chunk 0 is {Intro, A}; chunk 1 starts with A and is A alone
\* (A and B together exceed the budget); chunks 2 and 3 are B and C.
C7_SecondChunkIsAAlone ==
    IntroScenario =>
        /\ windows = << <<0, 2>>, <<1, 2>>, <<2, 3>>, <<3, 4>> >>
        /\ chunks[1].content = <<"Intro", NL, NL, "A50">>
        /\ chunks[2].content = <<"A50">>
        /\ chunks[3].content = <<"B50">>
        /\ chunks[4].content = <<"C50">>

\* C7 witness: the scenario's chunk list has been returned.
C7_Witness == IntroScenario /\ Len(chunks) = 4

\* The store holds the chunk of the primary's file at the index.
Present(primary, index) == Lookup(written, primary.blob_name, index) # <<>>

\* Every neighbour the primary has inside its document is in the store.
NeighboursPresent(primary) ==
    /\ primary.chunk_index > 0 => Present(primary, primary.chunk_index - 1)
    /\ primary.chunk_index + 1 < primary.chunk_total
          => Present(primary, primary.chunk_index + 1)

\* The chunk_index values of a list of chunks, in order.
RECURSIVE Indexes(_)
Indexes(docs) ==
    IF docs = <<>> THEN <<>>
    ELSE <<Head(docs).chunk_index>> \o Indexes(Tail(docs))

\* What C8 says of every family apart from the count at the document's ends:
\* the lookups issued, the three chunks in the middle, the merged text.
FamilyShape(f) ==
    LET k == f.primary.chunk_index
        total == f.primary.chunk_total
    IN  /\ f.calls = {i \in {k - 1, k + 1} : 0 <= i /\ i < total}
        /\ NeighboursPresent(f.primary) =>
              /\ (0 < k /\ k < total - 1) => Indexes(f.docs) = <<k - 1, k, k + 1>>
              /\ \A n \in 1..(Len(f.docs) - 1) :
                    f.docs[n].chunk_index < f.docs[n + 1].chunk_index
              /\ f.text = Join(ChunkTexts(f.docs), <<NL, NL>>)

\* C8 as stated: with the neighbours present the family is k-1, k, k+1 in the
\* middle of a document and exactly 2 chunks at k = 0 or k = total-1.
C8_FamilyOrdering ==
    family # <<>> =>
        LET f == family[1]
            k == f.primary.chunk_index
            total == f.primary.chunk_total
        IN  /\ FamilyShape(f)
            /\ (NeighboursPresent(f.primary) /\ (k = 0 \/ k = total - 1))
                  => Len(f.docs) = 2

\* C8 as amended: as stated, but at k = 0 or k = total-1 the family is
\* exactly 2 chunks only when total >= 2; for a document of one chunk it is
\* the primary alone.
C8_FamilyOrderingFromTwoChunks ==
    family # <<>> =>
        LET f == family[1]
            k == f.primary.chunk_index
            total == f.primary.chunk_total
        IN  /\ FamilyShape(f)
            /\ (NeighboursPresent(f.primary) /\ (k = 0 \/ k = total - 1))
                  => Len(f.docs) = (IF total >= 2 THEN 2 ELSE 1)

\* C8 witness: a family of three chunks around a primary in the middle.
C8_Witness ==
    /\ family # <<>>
    /\ Len(family[1].docs) = 3
    /\ NeighboursPresent(family[1].primary)

\* What C9 says follows a failure of PartitionFile: chunking is not run,
\* nothing is written, nothing is queued, the status is State.ERROR.
NothingCommitted ==
    /\ element_index = 0 /\ normalized_elements = <<>> /\ chunks = <<>>
    /\ written = <<>>
    /\ queue = <<>>
    /\ status = "ERROR"

\* C9 as stated: a failure of PartitionFile reaches main as UnstructuredError
\* and nothing of the document is committed.
C9_PartitionFailure ==
    error.raised_in = "PartitionFile" =>
        error.type = "UnstructuredError" /\ NothingCommitted

\* C9 as amended: a failure of a parser (or of the JSON decoding) inside
\* PartitionFile reaches main as UnstructuredError, a failure of
\* PartitionFile's own download as the download's exception; either way
\* nothing of the document is committed and the status is State.ERROR.
C9_PartitionFailureByKind ==
    error.raised_in = "PartitionFile" =>
        /\ error.type \in {"UnstructuredError", "ConnectionError"}
        /\ (ParserRaises(blob) /\ error.type # "ConnectionError")
              => error.type = "UnstructuredError"
        /\ NothingCommitted
        /\ pc \in {"save", "done"}

\* C9 witness: main has saved the status of a document whose parser raised.
C9_Witness ==
    /\ error = Raised("UnstructuredError", "PartitionFile")
    /\ pc = "done" /\ saved

\* C10: for ".json" and a JSON object, PartitionFile returns three values:
\* the elements of the payload's strings, the metadata with the 'Title' line
\* of a non-blank string title, and the payload's 'source_url'.
C10_JsonReturnsThree ==
    (pc = "title" /\ blob.ext = ".json" /\ blob.payload.t = "dict") =>
        /\ Len(partition_ret) = 3
        /\ partition_ret[1].items # <<>>
        /\ LET t == DictGet(blob.payload.v, "Title")
           IN  (t # <<>> /\ t[1].t = "str" /\ Strip(t[1].v) # <<>>) =>
                   \E n \in 1..Len(partition_ret[2]) :
                       partition_ret[2][n] = <<"Title:", " ">> \o Strip(t[1].v)
        /\ LET u == DictGet(blob.payload.v, "source_url")
           IN  u # <<>> => partition_ret[3] = u[1].v

\* The section rule of C11 applied to the first k raw elements:
\* <<running section, the stamps of the kept elements in order>>.  The
\* running section starts empty; an element with empty display text changes
\* nothing; a kept heading-like element sets the running section to the
\* first line of its display text (trimmed or as it is); every kept element
\* is stamped with the running section after that.
RECURSIVE SectionTrace(_, _, _)
SectionTrace(items, k, trimmed) ==
    IF k = 0 THEN << <<>>, <<>> >>
    ELSE LET before == SectionTrace(items, k - 1, trimmed)
             display == _normalize_element_content(items[k])[1]
             line == IF trimmed THEN Strip(FirstLine(display))
                     ELSE FirstLine(display)
             running == IF display # <<>>
                           /\ items[k].category \in HEADER_CATEGORIES
                        THEN line ELSE before[1]
         IN  IF display = <<>> THEN before
             ELSE <<running, Append(before[2], running)>>

\* The normalization pass agrees with the section rule on the elements it
\* has gone through.
FollowsSectionRule(trimmed) ==
    LET trace == SectionTrace(elements.items, element_index, trimmed)
    IN  /\ current_section = trace[1]
        /\ Len(normalized_elements) = Len(trace[2])
        /\ \A n \in 1..Len(normalized_elements) :
              normalized_elements[n].section = trace[2][n]

\* C11 as stated: the running section starts empty and changes only at a kept
\* heading-like element, where it becomes the first line of the element's
\* display text; every normalized element, the heading included, carries the
\* section as it stands after that update; discarded elements change nothing.
C11_SectionIsFirstLine == FollowsSectionRule(FALSE)

\* C11 as amended: as stated, the section taken from a heading being the
\* first line of its display text with leading and trailing whitespace
\* removed.
C11_SectionIsTrimmedFirstLine == FollowsSectionRule(TRUE)

\* C11 witness: a heading whose first line ends in a blank names itself as
\* its section, and an element was discarded after a section was set.
C11_Witness ==
    /\ \E n \in 1..Len(normalized_elements) :
          /\ normalized_elements[n].category \in HEADER_CATEGORIES
          /\ normalized_elements[n].section # <<>>
          /\ normalized_elements[n].section
                = Strip(FirstLine(normalized_elements[n].display_text))
    /\ element_index > Len(normalized_elements)
    /\ current_section # <<>>

\* C12: every window is a non-empty run [start, end) of the normalized
\* sequence, the first starts at position 0, each next one starts after the
\* previous one's start and no later than its end, and the window the
\* function returns after ends at the sequence's end; so once the function
\* has returned every normalized element is in at least one chunk.
C12_NoGapBetweenWindows ==
    /\ \A j \in 1..Len(windows) :
          /\ 0 <= windows[j][1]
          /\ windows[j][1] < windows[j][2]
          /\ windows[j][2] <= Len(normalized_elements)
    /\ windows # <<>> => windows[1][1] = 0
    /\ \A j \in 1..(Len(windows) - 1) :
          /\ windows[j][1] < windows[j + 1][1]
          /\ windows[j + 1][1] <= windows[j][2]
    /\ ChunkerReturned =>
          /\ normalized_elements # <<>> =>
                /\ windows # <<>>
                /\ windows[Len(windows)][2] = Len(normalized_elements)
          /\ \A i \in Positions : \E j \in 1..Len(windows) : Holds(windows[j], i)

\* C12 witness: the function returned after a window that starts exactly at
\* the end of the one before it and a window that starts inside the one
\* before it.
C12_Witness ==
    /\ ChunkerReturned
    /\ \E j \in 1..(Len(windows) - 1) : windows[j + 1][1] = windows[j][2]
    /\ \E j \in 1..(Len(windows) - 1) : windows[j + 1][1] < windows[j][2]

\* C13: no failure leaves main, and every invocation that has ended has the
\* document's status at State.QUEUED or State.ERROR with save_document
\* called.
C13_EveryInvocationRecorded ==
    caller = "main" =>
        /\ pc # "escaped"
        /\ pc \in {"done", "resolved"} =>
              /\ status \in {"QUEUED", "ERROR"}
              /\ saved

====
